---- MODULE Spec2Model ----
(***************************************************************************)
(* Model of the download queue and worker pool (download/queue.py), the    *)
(* progress relay of the downloader (download/downloader.py), the session  *)
(* registry (auth/session.py) and the two routes that drive them           *)
(* (routes/video.py), the history table written by the queue               *)
(* (models/download_history.py) and the cookie vault                       *)
(* (auth/cookie_manager.py).                                               *)
(*                                                                         *)
(* The event loop runs one handler at a time, so every route handler and   *)
(* every stretch of a worker between two awaits is one action.  The        *)
(* extraction call runs in an executor thread; its progress hooks write    *)
(* the queue's dictionaries from that thread, so the two statements of     *)
(* _update_progress are two steps that interleave with the event loop.     *)
(***************************************************************************)
EXTENDS Integers, Sequences, FiniteSets, TLC

\* ---- bounds of the model ------------------------------------------------
MaxJobs == 2          \* download ids that submissions may generate
MaxConcurrent == 2    \* largest max_concurrent a queue is constructed with
MaxSessions == 1      \* session ids that create_session may generate
MaxCancels == 2       \* cancel calls that return True
MaxLiveCancels == 1   \* the same, in the specification with fairness
MaxVideos == 2        \* download ids that playlist submissions may generate
MaxUsers == 1         \* user ids a session may be created for
MaxClock == 3         \* hours the clock may reach
MaxBytes == 2         \* largest byte count of a progress sample
MaxVaultIds == 2      \* session ids the cookie vault is called with
MaxLogins == 2        \* session ids create_session may generate

\* ---- values -------------------------------------------------------------
None == 0             \* Python None for an optional id
JobIds == 1..MaxJobs
SessionIds == 1..MaxSessions
WorkerIds == 1..MaxConcurrent
DownloadIds == 1..(MaxJobs + MaxVideos)   \* JobIds and the ids of playlist videos
UserIds == 1..MaxUsers
VaultIds == 1..MaxVaultIds
LoginIds == 1..MaxLogins
EmptyStr == -1        \* the empty string as a user id
Hours == 1..MaxClock

PENDING == "pending"
DOWNLOADING == "downloading"
PROCESSING == "processing"
COMPLETED == "completed"
FAILED == "failed"
CANCELLED == "cancelled"
DownloadStatus == {PENDING, DOWNLOADING, PROCESSING, COMPLETED, FAILED, CANCELLED}
Terminal == {COMPLETED, FAILED, CANCELLED}

\* the 'status' values a yt-dlp progress hook is called with
HookStatuses == {"downloading", "finished", "error"}

\* the per-session limit hard-coded in initiate_download
SessionLimit == 3

VARIABLES
  max_concurrent,   \* DownloadQueue.max_concurrent
  queue,            \* DownloadQueue.queue: FIFO of (download_id, request, cookies)
  unfinished_tasks, \* DownloadQueue.queue: puts not yet matched by task_done()
  downloads,        \* DownloadQueue.downloads: download_id -> metadata
  progress,         \* DownloadQueue.progress: download_id -> ProgressUpdate
  workers,          \* DownloadQueue.workers: position of each worker task
  executor,         \* the executor thread of each extraction call: where it
                    \* is, and the status _update_progress is about to mirror
  sessions,         \* SessionManager._sessions
  sids_issued,      \* number of session ids generated so far
  ids_issued,       \* number of download ids generated so far
  now,              \* datetime.utcnow(), in hours
  history,          \* the rows of the 'downloads' table, in insertion order
  db_ops,           \* db_op calls handed to the thread pool and not yet run
  cookie_store,     \* CookieManager._cookie_store
  cookie_metadata,  \* CookieManager._metadata
  evicted,          \* session ids retrieve_cookies has logged as expired
  \* ---- observations (written, never read by the program) ----
  dispatched,       \* download ids in the order queue.get() returned them
  invoked,          \* download_id -> number of extraction calls started
  cancel_true,      \* download_id -> number of cancel_download calls that returned True
  ever_terminal,    \* ids that have had a terminal status
  store_calls,      \* vault id -> the cookies of its latest store_cookies call
                    \* that returned, after those of the one before it
  returned          \* the last value returned by a maintenance or vault call

vars == <<max_concurrent, queue, unfinished_tasks, downloads, progress, workers, executor,
          sessions, sids_issued, ids_issued, now, history, db_ops, cookie_store,
          cookie_metadata, evicted, dispatched, invoked, cancel_true, ever_terminal,
          store_calls, returned>>

obs == <<dispatched, invoked, cancel_true, ever_terminal>>

\* the cookie vault
vault == <<cookie_store, cookie_metadata, evicted, store_calls>>

\* what the queue's handlers read at most: the clock, the table, the vault,
\* the session ids generated
rest == <<now, history, vault, returned, sids_issued>>

\* what the handlers that finish no queue entry leave alone
outside == <<rest, db_ops, unfinished_tasks>>

\* ---- helpers ------------------------------------------------------------
Range(s) == {s[i] : i \in 1..Len(s)}

RemoveFirst(s, x) ==
  LET idx == {i \in 1..Len(s) : s[i] = x}
  IN IF idx = {} THEN s
     ELSE LET k == CHOOSE i \in idx : \A m \in idx : i <= m
          IN SubSeq(s, 1, k - 1) \o SubSeq(s, k + 1, Len(s))

TerminalNow(d) == {j \in DOMAIN d : d[j].status \in Terminal}

\* a put_nowait that inserts at the head (a LIFO queue)
QueuePutFront(q, item) == <<item>> \o q

\* asyncio.Queue.put_nowait: the item is appended
QueuePut(q, item) == Append(q, item)

\* asyncio.Queue.get: the item returned
QueueHead(q) == Head(q)

\* a get that leaves the item in the queue
QueueRestKeep(q) == q

\* asyncio.Queue.get: the queue left behind
QueueRest(q) == Tail(q)

\* DownloadQueue._update_status on the metadata map
UpdateStatusDownloads(d, id, status) ==
  IF id \in DOMAIN d THEN [d EXCEPT ![id].status = status] ELSE d

\* DownloadQueue._update_status on the progress map
UpdateStatusProgress(p, id, status) ==
  IF id \in DOMAIN p THEN [p EXCEPT ![id].status = status] ELSE p

\* an Optional result: the value in a sequence, the empty sequence for None
Some(x) == <<x>>
Nothing == <<>>

\* no maintenance or vault call has returned yet
NoReturn == [op |-> "none", arg |-> None, value |-> None, alt |-> 0]

\* the value a call returns, as the next observation
Return(op, arg, value) ==
  [op |-> op, arg |-> arg, value |-> value, alt |-> 1 - returned.alt]

\* a mapping without the keys in gone
Without(f, gone) ==
  IF DOMAIN f \cap gone = {} THEN f ELSE [k \in DOMAIN f \ gone |-> f[k]]

\* bool(x) of an optional string
Truthy(x) == x # None /\ x # EmptyStr

\* the process after DownloadQueue, SessionManager and CookieManager are
\* constructed
InitProcess ==
  /\ max_concurrent \in 1..MaxConcurrent
  /\ queue = <<>>
  /\ unfinished_tasks = 0
  /\ downloads = <<>>
  /\ progress = <<>>
  /\ workers = [w \in WorkerIds |-> [pc |-> "unstarted", download_id |-> None]]
  /\ executor = [j \in DownloadIds |-> [pc |-> "none", status |-> "none"]]
  /\ sessions = <<>>
  /\ sids_issued = 0
  /\ ids_issued = 0
  /\ now = 1
  /\ db_ops = {}
  /\ cookie_store = <<>>
  /\ cookie_metadata = <<>>
  /\ evicted = {}
  /\ dispatched = <<>>
  /\ invoked = [j \in DownloadIds |-> 0]
  /\ cancel_true = [j \in DownloadIds |-> 0]
  /\ ever_terminal = {}
  /\ store_calls = [k \in VaultIds |-> <<>>]
  /\ returned = NoReturn

\* the process starts with an empty 'downloads' table
Init == InitProcess /\ history = <<>>

\* a start_workers that ignores max_concurrent and starts a fixed pool
StartWorkersAll ==
  /\ \A w \in WorkerIds : workers[w].pc = "unstarted"
  /\ workers' = [w \in WorkerIds |-> [pc |-> "get", download_id |-> None]]
  /\ UNCHANGED <<max_concurrent, queue, downloads, progress, executor,
                 sessions, ids_issued, obs, outside>>

\* DownloadQueue.start_workers
StartWorkers ==
  /\ \A w \in WorkerIds : workers[w].pc = "unstarted"
  /\ workers' = [w \in WorkerIds |->
                   IF w <= max_concurrent
                   THEN [pc |-> "get", download_id |-> None]
                   ELSE workers[w]]
  /\ UNCHANGED <<max_concurrent, queue, downloads, progress, executor,
                 sessions, ids_issued, obs, outside>>

\* DownloadQueue.stop_workers: every worker task is cancelled at its await;
\* CancelledError is not an Exception, so no status is written; the executor
\* threads keep running
StopWorkers ==
  /\ \E w \in WorkerIds : workers[w].pc \in {"get", "extract", "sleep"}
  /\ workers' = [w \in WorkerIds |->
                   IF workers[w].pc \in {"get", "extract", "sleep"}
                   THEN [pc |-> "stopped", download_id |-> None]
                   ELSE workers[w]]
  /\ UNCHANGED <<max_concurrent, queue, downloads, progress, executor,
                 sessions, ids_issued, obs, outside>>

\* ---- session registry -----------------------------------------------------
\* create_session: timeout_hours when the caller gives none
SessionTimeout == 24

\* the queue and the vault, which no SessionManager method touches
beside_sessions == <<max_concurrent, queue, unfinished_tasks, downloads,
                     progress, workers, executor, ids_issued, obs, now,
                     history, db_ops, vault>>

\* a get_session that also takes the sessions that expire now for expired
SessionExpiredAtExpiry(ss, sid) == sid \in DOMAIN ss /\ ss[sid].expires_at <= now

\* get_session: the session is stored and its expiry is before now
SessionExpired(ss, sid) == sid \in DOMAIN ss /\ ss[sid].expires_at < now

\* SessionManager.get_session returns a session: it is stored and has not
\* expired
GetSession(ss, sid) == sid \in DOMAIN ss /\ ~SessionExpired(ss, sid)

\* a get_session that renews the expiry of the session it returns
AfterGetSessionRenewing(ss, sid) ==
  IF sid \notin DOMAIN ss THEN ss
  ELSE IF SessionExpired(ss, sid) THEN Without(ss, {sid})
  ELSE [ss EXCEPT ![sid].last_activity = now,
                  ![sid].expires_at = now + (@ - ss[sid].created_at)]

\* SessionManager.get_session, what it does to the registry: an expired
\* session is deleted, any other stored session has its last activity set
AfterGetSession(ss, sid) ==
  IF sid \notin DOMAIN ss THEN ss
  ELSE IF SessionExpired(ss, sid) THEN Without(ss, {sid})
  ELSE [ss EXCEPT ![sid].last_activity = now]

\* an add_download that appends without looking for the id
SessionAddDownloadAgain(ss, sid, id) ==
  IF ~GetSession(ss, sid) THEN AfterGetSession(ss, sid)
  ELSE [AfterGetSession(ss, sid) EXCEPT ![sid].active_downloads = Append(@, id)]

\* SessionManager.add_download
SessionAddDownload(ss, sid, id) ==
  IF ~GetSession(ss, sid) THEN AfterGetSession(ss, sid)
  ELSE IF id \in Range(ss[sid].active_downloads) THEN AfterGetSession(ss, sid)
  ELSE [AfterGetSession(ss, sid) EXCEPT ![sid].active_downloads = Append(@, id)]

\* SessionManager.remove_download
SessionRemoveDownload(ss, sid, id) ==
  IF ~GetSession(ss, sid) THEN AfterGetSession(ss, sid)
  ELSE [AfterGetSession(ss, sid) EXCEPT
          ![sid].active_downloads = RemoveFirst(@, id)]

\* SessionManager.get_active_download_count: the value it returns
GetActiveDownloadCount(ss, sid) ==
  IF GetSession(ss, sid) THEN Len(ss[sid].active_downloads) ELSE 0

\* create_session: str(uuid.uuid4()), an id never generated before
SessionIdFresh == sids_issued + 1

\* create_session: the session record
NewSession(sid, user_id, user_email, timeout_hours) ==
  [session_id |-> sid, user_id |-> user_id, user_email |-> user_email,
   created_at |-> now, last_activity |-> now,
   expires_at |-> now + timeout_hours, authenticated |-> Truthy(user_id),
   active_downloads |-> <<>>]

\* SessionManager.create_session
CreateSession(user_id, user_email, timeout_hours) ==
  /\ sids_issued < MaxLogins
  /\ LET sid == SessionIdFresh
     IN /\ sessions' = (sid :> NewSession(sid, user_id, user_email, timeout_hours))
                         @@ sessions
        /\ returned' = Return("create_session",
                              [user_id |-> user_id, timeout_hours |-> timeout_hours],
                              sid)
  /\ sids_issued' = sids_issued + 1
  /\ UNCHANGED beside_sessions

\* create_session called with its default timeout, for the sessions the
\* routes are called with
CreateSessionDefault(user_id) ==
  /\ sids_issued < MaxSessions
  /\ CreateSession(user_id, None, SessionTimeout)

\* session.get('user_id') of the session a route looked up, None without one
SessionUserId(ss, sid) ==
  IF sid # None /\ GetSession(ss, sid) THEN ss[sid].user_id ELSE None

\* initiate_download: the session is found and is below the limit
InitiateAccepted(ss, sid) ==
  /\ GetSession(ss, sid)                                          \* else 401
  /\ GetActiveDownloadCount(ss, sid) < SessionLimit               \* else 429

\* ---- session registry, called ----------------------------------------------
\* SessionManager.get_session
GetSessionCall(sid) ==
  /\ sessions' = AfterGetSession(sessions, sid)
  /\ returned' = Return("get_session", sid,
                        IF GetSession(sessions, sid)
                        THEN Some(AfterGetSession(sessions, sid)[sid])
                        ELSE Nothing)
  /\ UNCHANGED <<sids_issued, beside_sessions>>

\* an update that puts the keyword arguments in place of the session
SessionReplaced(session, kwargs) ==
  [f \in DOMAIN kwargs \cup {"last_activity"} |->
     IF f \in DOMAIN kwargs THEN kwargs[f] ELSE session[f]]

\* update_session: session.update(kwargs)
SessionUpdated(session, kwargs) ==
  [f \in DOMAIN session \cup DOMAIN kwargs |->
     IF f \in DOMAIN kwargs THEN kwargs[f] ELSE session[f]]

\* SessionManager.update_session
UpdateSession(sid, kwargs) ==
  /\ sessions' =
       IF GetSession(sessions, sid)
       THEN [sessions EXCEPT
               ![sid] = [SessionUpdated(@, kwargs) EXCEPT !.last_activity = now]]
       ELSE AfterGetSession(sessions, sid)
  /\ returned' = Return("update_session", [session_id |-> sid, kwargs |-> kwargs],
                        GetSession(sessions, sid))
  /\ UNCHANGED <<sids_issued, beside_sessions>>

\* SessionManager.delete_session
DeleteSession(sid) ==
  /\ sessions' = Without(sessions, {sid})
  /\ returned' = Return("delete_session", sid, sid \in DOMAIN sessions)
  /\ UNCHANGED <<sids_issued, beside_sessions>>

\* SessionManager.is_authenticated
IsAuthenticated(sid) ==
  /\ sessions' = AfterGetSession(sessions, sid)
  /\ returned' = Return("is_authenticated", sid,
                        IF GetSession(sessions, sid)
                        THEN sessions[sid].authenticated
                        ELSE FALSE)
  /\ UNCHANGED <<sids_issued, beside_sessions>>

\* SessionManager.add_download
AddDownload(sid, id) ==
  /\ sessions' = SessionAddDownload(sessions, sid, id)
  /\ returned' = Return("add_download", [session_id |-> sid, download_id |-> id],
                        GetSession(sessions, sid))
  /\ UNCHANGED <<sids_issued, beside_sessions>>

\* SessionManager.remove_download
RemoveDownload(sid, id) ==
  /\ sessions' = SessionRemoveDownload(sessions, sid, id)
  /\ returned' = Return("remove_download", [session_id |-> sid, download_id |-> id],
                        GetSession(sessions, sid))
  /\ UNCHANGED <<sids_issued, beside_sessions>>

\* SessionManager.get_active_download_count
ActiveDownloadCount(sid) ==
  /\ sessions' = AfterGetSession(sessions, sid)
  /\ returned' = Return("get_active_download_count", sid,
                        GetActiveDownloadCount(sessions, sid))
  /\ UNCHANGED <<sids_issued, beside_sessions>>

\* SessionManager.cleanup_expired
SessionCleanupExpired ==
  /\ LET expired_sessions == {sid \in DOMAIN sessions : sessions[sid].expires_at < now}
     IN /\ sessions' = Without(sessions, expired_sessions)
        /\ returned' = Return("sessions.cleanup_expired", None, Cardinality(expired_sessions))
  /\ UNCHANGED <<sids_issued, beside_sessions>>

\* ---- submission -----------------------------------------------------------
\* DownloadQueue.add_download: the metadata record of a new download
\* ('url' is kept as whether validate_youtube_url accepts it; the nullable
\* fields as whether they are set)
NewMetadata(sid, user_id, url_valid) ==
  [session_id |-> sid, user_id |-> user_id, url_valid |-> url_valid,
   status |-> PENDING, completed_at |-> None, output_file |-> FALSE,
   error |-> FALSE]

\* DownloadQueue.add_download: the progress snapshot of a new download
NewProgress == [status |-> PENDING, progress |-> 0, total_bytes |-> None]

\* DownloadQueue.add_download: the tuple put on the queue
QueueItem(id, url_valid, cookies) ==
  [download_id |-> id, request |-> [url_valid |-> url_valid], cookies |-> cookies]

\* routes/video.py initiate_download, with DownloadQueue.add_download
InitiateDownload(sid, url_valid, cookies) ==
  /\ ids_issued < MaxJobs
  /\ IF sid # None /\ ~InitiateAccepted(sessions, sid)
     THEN /\ sessions' = AfterGetSession(sessions, sid)          \* 401 or 429
          /\ UNCHANGED <<ids_issued, downloads, progress, queue, unfinished_tasks>>
     ELSE LET id == ids_issued + 1
              user_id == SessionUserId(sessions, sid)
          IN /\ ids_issued' = id
             /\ downloads' = downloads @@ (id :> NewMetadata(sid, user_id, url_valid))
             /\ progress' = progress @@ (id :> NewProgress)
             /\ queue' = QueuePut(queue, QueueItem(id, url_valid, cookies))
             /\ unfinished_tasks' = unfinished_tasks + 1
             /\ sessions' = IF sid # None THEN SessionAddDownload(sessions, sid, id)
                            ELSE sessions
  /\ UNCHANGED <<max_concurrent, workers, executor, obs, rest, db_ops>>

\* put_nowait for each item in turn
RECURSIVE QueuePutAll(_, _)
QueuePutAll(q, items) ==
  IF items = <<>> THEN q
  ELSE QueuePutAll(QueuePut(q, Head(items)), Tail(items))

\* routes/video.py initiate_playlist_download, after get_playlist_info has
\* returned n videos: each video is added to the queue under the request's
\* session id; the session is read for its user id only
InitiatePlaylistDownload(sid, n, cookies) ==
  /\ n >= 1                                                      \* else 400
  /\ ids_issued + n <= MaxJobs + MaxVideos
  /\ LET new == (ids_issued + 1)..(ids_issued + n)
         user_id == SessionUserId(sessions, sid)
     IN /\ ids_issued' = ids_issued + n
        /\ downloads' = downloads @@ [id \in new |-> NewMetadata(sid, user_id, TRUE)]
        /\ progress' = progress @@ [id \in new |-> NewProgress]
        /\ queue' = QueuePutAll(queue, [i \in 1..n |->
                                          QueueItem(ids_issued + i, TRUE, cookies)])
        /\ unfinished_tasks' = unfinished_tasks + n
        /\ sessions' = IF sid # None THEN AfterGetSession(sessions, sid)
                       ELSE sessions
  /\ UNCHANGED <<max_concurrent, workers, executor, obs, rest, db_ops>>

\* ---- worker ---------------------------------------------------------------
\* an except branch that sets the status and the error, and no completion time
FailedMetadataUntimed(d, id) ==
  [UpdateStatusDownloads(d, id, FAILED) EXCEPT ![id].error = TRUE]

\* _worker, the except Exception branch: the download is marked failed
FailedMetadata(d, id) ==
  [UpdateStatusDownloads(d, id, FAILED) EXCEPT ![id].error = TRUE,
                                                ![id].completed_at = now]

\* _worker, the success branch: the download is marked completed
CompletedMetadata(d, id) ==
  [UpdateStatusDownloads(d, id, COMPLETED) EXCEPT ![id].output_file = TRUE,
                                                   ![id].completed_at = now]

\* _save_history: the db_op calls in the thread pool after it.  Nothing is
\* handed over for a download without metadata or without a user id; db_op
\* reads the metadata the worker has just written.
SaveHistory(ops, d, id) ==
  IF id \notin DOMAIN d THEN ops
  ELSE IF ~Truthy(d[id].user_id) THEN ops
  ELSE ops \cup {[download_id |-> id, user_id |-> d[id].user_id,
                  status |-> d[id].status]}

\* the worker after one pass of its loop: back at queue.get(), or, when the
\* pass raised out of the inner try, at the sleep of the outer except branch
WorkerAfter(w, raised) ==
  [workers EXCEPT ![w] = [pc |-> IF raised THEN "sleep" ELSE "get",
                          download_id |-> None]]

\* _worker from queue.get() to the await inside download_video.  The status
\* is set to downloading whatever it was.  validate_youtube_url raises before
\* the executor is used when the URL is not a YouTube URL, and the worker's
\* except branch then marks the download failed in the same step; without a
\* metadata record that branch raises KeyError.
WorkerGet(w) ==
  /\ workers[w].pc = "get"
  /\ queue # <<>>
  /\ LET item == QueueHead(queue)
         id == item.download_id
         d1 == UpdateStatusDownloads(downloads, id, DOWNLOADING)
         p1 == UpdateStatusProgress(progress, id, DOWNLOADING)
     IN /\ queue' = QueueRest(queue)
        /\ dispatched' = Append(dispatched, id)
        /\ IF item.request.url_valid
           THEN /\ downloads' = d1
                /\ progress' = p1
                /\ workers' = [workers EXCEPT ![w] = [pc |-> "extract", download_id |-> id]]
                /\ executor' = [executor EXCEPT ![id] = [pc |-> "running", status |-> "none"]]
                /\ invoked' = [invoked EXCEPT ![id] = @ + 1]
                /\ UNCHANGED <<db_ops, unfinished_tasks>>
           ELSE /\ progress' = UpdateStatusProgress(p1, id, FAILED)
                /\ IF id \in DOMAIN downloads
                   THEN /\ downloads' = FailedMetadata(d1, id)
                        /\ db_ops' = SaveHistory(db_ops, FailedMetadata(d1, id), id)
                        /\ workers' = WorkerAfter(w, FALSE)
                   ELSE /\ workers' = WorkerAfter(w, TRUE)
                        /\ UNCHANGED <<downloads, db_ops>>
                /\ unfinished_tasks' = unfinished_tasks - 1   \* finally: task_done()
                /\ UNCHANGED <<executor, invoked>>
        /\ ever_terminal' = ever_terminal \cup TerminalNow(downloads')
  /\ UNCHANGED <<max_concurrent, sessions, ids_issued, cancel_true, rest>>

\* the worker's sleep in the outer except branch ends
WorkerWake(w) ==
  /\ workers[w].pc = "sleep"
  /\ workers' = [workers EXCEPT ![w].pc = "get"]
  /\ UNCHANGED <<max_concurrent, queue, downloads, progress, executor,
                 sessions, ids_issued, obs, outside>>

\* VideoDownloader._progress_hook: the status relayed for a hook status
\* (None when the hook relays nothing)
ProgressHookStatus(hs) ==
  IF hs = "downloading" THEN DOWNLOADING
  ELSE IF hs = "finished" THEN PROCESSING
  ELSE "none"

\* _progress_hook: the percentage of a 'downloading' sample, total being
\* total_bytes or total_bytes_estimate (None when neither is known).  The
\* quotient is a float in the code; its integer part is above 100 exactly
\* when the float is, for totals up to 100.
Percentage(downloaded, total) ==
  IF total # None THEN (downloaded * 100) \div total ELSE 0

\* _progress_hook: the ProgressUpdate it constructs for a sample
ProgressHookUpdate(hs, downloaded, total) ==
  [status |-> ProgressHookStatus(hs),
   progress |-> IF hs = "downloading" THEN Percentage(downloaded, total) ELSE 100,
   total_bytes |-> IF hs = "downloading" THEN total ELSE None]

\* a ProgressUpdate whose progress field has no bounds
ProgressUpdateUnbounded(u) == TRUE

\* models.py ProgressUpdate: Field(0.0, ge=0.0, le=100.0) on progress; the
\* constructor raises ValidationError otherwise
ProgressUpdateValid(u) == 0 <= u.progress /\ u.progress <= 100

\* _progress_hook and the first statement of _update_progress, in the
\* executor thread: the snapshot is replaced.  When the ProgressUpdate cannot
\* be constructed the hook raises and the extraction call ends with that
\* error.
ProgressHook(id, hs, downloaded, total) ==
  /\ executor[id].pc = "running"
  /\ LET u == ProgressHookUpdate(hs, downloaded, total)
     IN IF u.status = "none"
        THEN UNCHANGED <<progress, executor>>
        ELSE IF ProgressUpdateValid(u)
        THEN /\ progress' = (id :> u) @@ progress
             /\ executor' = [executor EXCEPT ![id] = [pc |-> "update", status |-> u.status]]
        ELSE /\ executor' = [executor EXCEPT ![id] = [pc |-> "raised", status |-> "none"]]
             /\ UNCHANGED progress
  /\ UNCHANGED <<max_concurrent, queue, downloads, workers, sessions,
                 ids_issued, obs, outside>>

\* the second statement of _update_progress: the status is mirrored into the
\* metadata
UpdateProgressMirror(id) ==
  /\ executor[id].pc = "update"
  /\ downloads' = UpdateStatusDownloads(downloads, id, executor[id].status)
  /\ executor' = [executor EXCEPT ![id] = [pc |-> "running", status |-> "none"]]
  /\ ever_terminal' = ever_terminal \cup TerminalNow(downloads')
  /\ UNCHANGED <<max_concurrent, queue, progress, workers, sessions,
                 ids_issued, dispatched, invoked, cancel_true, outside>>

\* the extraction call returns a file: _worker marks the download completed
\* and saves it to the history; without a metadata record the success branch
\* raises KeyError, and so does the except branch that catches it
WorkerComplete(w) ==
  /\ workers[w].pc = "extract"
  /\ LET id == workers[w].download_id
     IN /\ executor[id].pc = "running"
        /\ executor' = [executor EXCEPT ![id].pc = "finished"]
        /\ unfinished_tasks' = unfinished_tasks - 1          \* finally: task_done()
        /\ IF id \in DOMAIN downloads
           THEN /\ downloads' = CompletedMetadata(downloads, id)
                /\ progress' = UpdateStatusProgress(progress, id, COMPLETED)
                /\ db_ops' = SaveHistory(db_ops, CompletedMetadata(downloads, id), id)
                /\ workers' = WorkerAfter(w, FALSE)
           ELSE /\ progress' = UpdateStatusProgress(progress, id, FAILED)
                /\ workers' = WorkerAfter(w, TRUE)
                /\ UNCHANGED <<downloads, db_ops>>
        /\ ever_terminal' = ever_terminal \cup TerminalNow(downloads')
  /\ UNCHANGED <<max_concurrent, queue, sessions, ids_issued, dispatched,
                 invoked, cancel_true, rest>>

\* download_video, the except branches: the ProgressUpdate relayed through
\* the callback
FailedProgress == [status |-> FAILED, progress |-> 0, total_bytes |-> None]

\* a worker whose task ends when the extraction call raises
WorkerFailDies(w) ==
  /\ workers[w].pc = "extract"
  /\ LET id == workers[w].download_id
         d1 == UpdateStatusDownloads(downloads, id, FAILED)
         p1 == (id :> FailedProgress) @@ progress
     IN /\ executor[id].pc \in {"running", "raised"}
        /\ executor' = [executor EXCEPT ![id].pc = "finished"]
        /\ unfinished_tasks' = unfinished_tasks - 1          \* finally: task_done()
        /\ progress' = UpdateStatusProgress(p1, id, FAILED)
        /\ IF id \in DOMAIN downloads
           THEN /\ downloads' = FailedMetadata(d1, id)
                /\ db_ops' = SaveHistory(db_ops, FailedMetadata(d1, id), id)
           ELSE UNCHANGED <<downloads, db_ops>>
        /\ ever_terminal' = ever_terminal \cup TerminalNow(downloads')
  /\ workers' = [workers EXCEPT ![w] = [pc |-> "stopped", download_id |-> None]]
  /\ UNCHANGED <<max_concurrent, queue, sessions, ids_issued, dispatched,
                 invoked, cancel_true, rest>>

\* the extraction call raises (or its file is missing): download_video
\* relays a failed snapshot through the callback and raises, and _worker
\* marks the download failed and saves it to the history; without a metadata
\* record the except branch raises KeyError
WorkerFail(w) ==
  /\ workers[w].pc = "extract"
  /\ LET id == workers[w].download_id
         d1 == UpdateStatusDownloads(downloads, id, FAILED)
         p1 == (id :> FailedProgress) @@ progress
     IN /\ executor[id].pc \in {"running", "raised"}
        /\ executor' = [executor EXCEPT ![id].pc = "finished"]
        /\ unfinished_tasks' = unfinished_tasks - 1          \* finally: task_done()
        /\ progress' = UpdateStatusProgress(p1, id, FAILED)
        /\ IF id \in DOMAIN downloads
           THEN /\ downloads' = FailedMetadata(d1, id)
                /\ db_ops' = SaveHistory(db_ops, FailedMetadata(d1, id), id)
                /\ workers' = WorkerAfter(w, FALSE)
           ELSE /\ workers' = WorkerAfter(w, TRUE)
                /\ UNCHANGED <<downloads, db_ops>>
        /\ ever_terminal' = ever_terminal \cup TerminalNow(downloads')
  /\ UNCHANGED <<max_concurrent, queue, sessions, ids_issued, dispatched,
                 invoked, cancel_true, rest>>

\* a db_op that inserts without looking for an existing row
DbOpInsert(h, op) == Append(h, op)

\* db_op: the table after it; nothing is inserted when a row with the
\* download id exists
DbOpTable(h, op) ==
  IF \E i \in 1..Len(h) : h[i].download_id = op.download_id
  THEN h
  ELSE Append(h, op)

\* a db_op handed to the thread pool runs
DbOp ==
  /\ \E op \in db_ops :
       /\ history' = DbOpTable(history, op)
       /\ db_ops' = db_ops \ {op}
  /\ UNCHANGED <<max_concurrent, queue, downloads, progress, workers,
                 executor, sessions, sids_issued, ids_issued, obs, now, vault,
                 returned, unfinished_tasks>>

\* ---- cancellation ---------------------------------------------------------
\* DownloadQueue.cancel_download: the value it returns
CancelResult(d, id) ==
  IF id \notin DOMAIN d THEN FALSE
  ELSE IF d[id].status \in {COMPLETED, FAILED} THEN FALSE
  ELSE TRUE

\* calls of cancel_download that have returned True
CancelTrueTotal ==
  LET RECURSIVE Sum(_)
      Sum(n) == IF n = 0 THEN 0 ELSE cancel_true[n] + Sum(n - 1)
  IN Sum(MaxJobs + MaxVideos)

\* cancel_download writes the status and then the completion time; the
\* executor thread of the download may run the second statement of
\* _update_progress between the two: whether it does, when it is about to
\* run that statement
CancelRaces(id) ==
  IF executor[id].pc = "update" THEN BOOLEAN ELSE {FALSE}

\* routes/video.py cancel_download, with DownloadQueue.cancel_download
CancelDownload(id, sid) ==
  /\ CancelTrueTotal < MaxCancels
  /\ IF CancelResult(downloads, id)
     THEN /\ \E raced \in CancelRaces(id) :
               LET d1 == UpdateStatusDownloads(downloads, id, CANCELLED)
                   d2 == IF raced
                         THEN UpdateStatusDownloads(d1, id, executor[id].status)
                         ELSE d1
               IN /\ downloads' = [d2 EXCEPT ![id].completed_at = now]
                  /\ executor' = IF raced
                                 THEN [executor EXCEPT ![id] =
                                         [pc |-> "running", status |-> "none"]]
                                 ELSE executor
          /\ progress' = UpdateStatusProgress(progress, id, CANCELLED)
          /\ sessions' = IF sid # None
                         THEN SessionRemoveDownload(sessions, sid, id)
                         ELSE sessions
          /\ cancel_true' = [cancel_true EXCEPT ![id] = @ + 1]
     ELSE UNCHANGED <<downloads, progress, sessions, cancel_true, executor>>  \* 404
  /\ ever_terminal' = ever_terminal \cup TerminalNow(downloads')
                         \cup (IF CancelResult(downloads, id) THEN {id} ELSE {})
  /\ UNCHANGED <<max_concurrent, queue, workers, ids_issued, dispatched,
                 invoked, outside>>

\* ---- maintenance ----------------------------------------------------------
\* an hour passes
Tick ==
  /\ now < MaxClock
  /\ now' = now + 1
  /\ UNCHANGED <<max_concurrent, queue, downloads, progress, workers,
                 executor, sessions, sids_issued, ids_issued, obs, history,
                 db_ops, vault, returned, unfinished_tasks>>

\* an old_downloads that also takes the downloads completed at the threshold
OldDownloadsInclusive(d, max_age_hours) ==
  {id \in DOMAIN d :
     /\ d[id].status \in {COMPLETED, FAILED, CANCELLED}
     /\ d[id].completed_at # None
     /\ d[id].completed_at <= now - max_age_hours}

\* cleanup_old_downloads: the ids it collects in old_downloads
OldDownloads(d, max_age_hours) ==
  {id \in DOMAIN d :
     /\ d[id].status \in {COMPLETED, FAILED, CANCELLED}
     /\ d[id].completed_at # None
     /\ d[id].completed_at < now - max_age_hours}

\* DownloadQueue.cleanup_old_downloads
CleanupOldDownloads(max_age_hours) ==
  /\ LET old == OldDownloads(downloads, max_age_hours)
     IN /\ downloads' = Without(downloads, old)
        /\ progress' = Without(progress, old)
        /\ returned' = Return("cleanup_old_downloads", max_age_hours, Cardinality(old))
  /\ UNCHANGED <<max_concurrent, queue, workers, executor, sessions,
                 sids_issued, ids_issued, obs, now, history, db_ops, vault,
                 unfinished_tasks>>

\* the queue and its workers, with submissions and cancels that name no session
Next ==
  \/ StartWorkers
  \/ StopWorkers
  \/ \E url_valid \in BOOLEAN : InitiateDownload(None, url_valid, None)
  \/ \E w \in WorkerIds : WorkerGet(w)
  \/ \E id \in JobIds, hs \in HookStatuses : ProgressHook(id, hs, 0, None)
  \/ \E id \in JobIds : UpdateProgressMirror(id)
  \/ \E w \in WorkerIds : WorkerComplete(w)
  \/ \E w \in WorkerIds : WorkerFail(w)
  \/ \E id \in JobIds : CancelDownload(id, None)

Spec == Init /\ [][Next]_vars

\* the cancel route, called for a download that names no session
LiveCancelDownload(id) ==
  /\ CancelTrueTotal < MaxLiveCancels
  /\ CancelDownload(id, None)

\* the queue with its workers running: start_workers has no stop_workers after
\* it, a worker that can take a download does, an executor thread finishes the
\* statement it is in, and every extraction call returns
NextLive ==
  \/ StartWorkers
  \/ \E url_valid \in BOOLEAN : InitiateDownload(None, url_valid, None)
  \/ \E w \in WorkerIds : WorkerGet(w)
  \/ \E id \in JobIds, hs \in HookStatuses : ProgressHook(id, hs, 0, None)
  \/ \E id \in JobIds : UpdateProgressMirror(id)
  \/ \E w \in WorkerIds : WorkerComplete(w)
  \/ \E w \in WorkerIds : WorkerFail(w)
  \/ \E id \in JobIds : LiveCancelDownload(id)

LiveSpec ==
  /\ Init
  /\ [][NextLive]_vars
  /\ WF_vars(StartWorkers)
  /\ WF_vars(\E w \in WorkerIds : WorkerGet(w))
  /\ WF_vars(\E id \in JobIds : UpdateProgressMirror(id))
  /\ SF_vars(\E w \in WorkerIds : WorkerComplete(w) \/ WorkerFail(w))

\* a queue constructed with max_concurrent = 1
InitOne == Init /\ max_concurrent = 1

\* the single-worker queue, with its worker running
LiveSpecOne ==
  /\ InitOne
  /\ [][NextLive]_vars
  /\ WF_vars(StartWorkers)
  /\ WF_vars(\E w \in WorkerIds : WorkerGet(w))
  /\ WF_vars(\E id \in JobIds : UpdateProgressMirror(id))
  /\ SF_vars(\E w \in WorkerIds : WorkerComplete(w) \/ WorkerFail(w))

\* the queue together with the session registry
NextSessions ==
  \/ StartWorkers
  \/ CreateSessionDefault(None)
  \/ \E sid \in {None} \cup SessionIds, url_valid \in BOOLEAN :
        InitiateDownload(sid, url_valid, None)
  \/ \E w \in WorkerIds : WorkerGet(w)
  \/ \E id \in JobIds, hs \in HookStatuses : ProgressHook(id, hs, 0, None)
  \/ \E id \in JobIds : UpdateProgressMirror(id)
  \/ \E w \in WorkerIds : WorkerComplete(w)
  \/ \E w \in WorkerIds : WorkerFail(w)
  \/ \E id \in JobIds, sid \in {None} \cup SessionIds : CancelDownload(id, sid)

SpecSessions == Init /\ [][NextSessions]_vars

\* the value of the 'youtube_cookies' setting the routes pass on: unset or set
Cookies == {None, 1}

\* the routes that submit and cancel, called while the downloads wait in the
\* queue
NextPlaylist ==
  \/ \E user_id \in {None} \cup UserIds : CreateSessionDefault(user_id)
  \/ \E sid \in {None} \cup SessionIds, url_valid \in BOOLEAN, cookies \in Cookies :
        InitiateDownload(sid, url_valid, cookies)
  \/ \E sid \in {None} \cup SessionIds, n \in 1..MaxVideos, cookies \in Cookies :
        InitiatePlaylistDownload(sid, n, cookies)
  \/ \E id \in DownloadIds, sid \in {None} \cup SessionIds : CancelDownload(id, sid)

SpecPlaylist == Init /\ [][NextPlaylist]_vars

\* the 'downloads' table outlives the process: it is empty, or it holds a row
\* of an earlier run whose download_id a new download is given again
EarlierTables ==
  {<<>>} \cup {<<[download_id |-> j, user_id |-> u, status |-> COMPLETED]>> :
                 j \in JobIds, u \in UserIds}

InitHistory == InitProcess /\ history \in EarlierTables

\* downloads of logged-in and anonymous callers, the workers that finish
\* them, and the thread pool that runs db_op
NextHistory ==
  \/ StartWorkers
  \/ \E user_id \in UserIds : CreateSessionDefault(user_id)
  \/ \E sid \in {None} \cup SessionIds, url_valid \in BOOLEAN :
        InitiateDownload(sid, url_valid, None)
  \/ \E w \in WorkerIds : WorkerGet(w)
  \/ \E w \in WorkerIds : WorkerComplete(w)
  \/ \E w \in WorkerIds : WorkerFail(w)
  \/ DbOp

SpecHistory == InitHistory /\ [][NextHistory]_vars

\* submissions that carry the cookie setting or none, and the workers that
\* take them off the queue
NextSubmit ==
  \/ StartWorkers
  \/ \E url_valid \in BOOLEAN, cookies \in Cookies :
        InitiateDownload(None, url_valid, cookies)
  \/ \E w \in WorkerIds : WorkerGet(w)
  \/ \E w \in WorkerIds : WorkerComplete(w)
  \/ \E w \in WorkerIds : WorkerFail(w)

SpecSubmit == Init /\ [][NextSubmit]_vars

\* the max_age_hours values cleanup_old_downloads is called with
MaxAges == 0..(MaxClock - 2)

\* the queue and its workers while hours pass and cleanup_old_downloads runs
NextSweep ==
  \/ StartWorkers
  \/ StopWorkers
  \/ \E url_valid \in BOOLEAN : InitiateDownload(None, url_valid, None)
  \/ \E w \in WorkerIds : WorkerGet(w)
  \/ \E w \in WorkerIds : WorkerWake(w)
  \/ \E id \in JobIds, hs \in HookStatuses : ProgressHook(id, hs, 0, None)
  \/ \E id \in JobIds : UpdateProgressMirror(id)
  \/ \E w \in WorkerIds : WorkerComplete(w)
  \/ \E w \in WorkerIds : WorkerFail(w)
  \/ \E id \in JobIds : CancelDownload(id, None)
  \/ Tick
  \/ \E max_age_hours \in MaxAges : CleanupOldDownloads(max_age_hours)

SpecSweep == Init /\ [][NextSweep]_vars

\* the byte counts of a progress sample: downloaded_bytes, and total_bytes or
\* total_bytes_estimate (None when unknown)
Downloaded == 0..MaxBytes
Totals == {None} \cup (1..MaxBytes)

\* downloads whose extraction calls emit every progress sample
NextProgress ==
  \/ StartWorkers
  \/ InitiateDownload(None, TRUE, None)
  \/ \E w \in WorkerIds : WorkerGet(w)
  \/ \E id \in JobIds, hs \in HookStatuses, downloaded \in Downloaded,
        total \in Totals : ProgressHook(id, hs, downloaded, total)
  \/ \E id \in JobIds : UpdateProgressMirror(id)
  \/ \E w \in WorkerIds : WorkerComplete(w)
  \/ \E w \in WorkerIds : WorkerFail(w)
  \/ \E id \in JobIds : CancelDownload(id, None)

SpecProgress == Init /\ [][NextProgress]_vars

\* ---- cookie vault ---------------------------------------------------------
\* everything but the vault, the clock and the last returned value
queue_vars == <<max_concurrent, queue, unfinished_tasks, downloads, progress,
                workers, executor, sessions, sids_issued, ids_issued, obs,
                history, db_ops>>

\* the cookie dictionaries callers store, and the expires_in_hours they give
CookieJars == {1, 2}
Ttls == 0..(MaxClock - 2)

\* a decrypted payload that json.loads rejects
NotJson == -1

\* CookieManager.encrypt_cookies: the Fernet token of the serialised cookies,
\* signed with the key of the cipher
EncryptCookies(cookies) == [token |-> cookies, signed |-> TRUE]

\* a cookies value that json.dumps rejects
NotSerializable == -2

\* an encrypt_cookies that takes every value
EncryptRaisesNever(cookies) == FALSE

\* encrypt_cookies raises EncryptionError: json.dumps raises on the value
EncryptRaises(cookies) == cookies = NotSerializable

\* decrypt_cookies raises EncryptionError: the token does not authenticate
\* under the key (InvalidToken), or its payload does not parse
DecryptRaises(encrypted) == ~encrypted.signed \/ encrypted.token = NotJson

\* CookieManager.decrypt_cookies, when it returns
DecryptCookies(encrypted) == encrypted.token

\* a call that raises: the exception in place of a returned value
Raise(e) == <<"raise", e>>

\* the latest two of the store calls of an id
LatestTwo(calls) ==
  IF Len(calls) <= 2 THEN calls ELSE SubSeq(calls, Len(calls) - 1, Len(calls))

\* a store that keeps the record an id already has
StoreIntoKeep(store, session_id, encrypted) == store @@ (session_id :> encrypted)

\* store_cookies: self._cookie_store[session_id] = encrypted
StoreInto(store, session_id, encrypted) == (session_id :> encrypted) @@ store

\* CookieManager.store_cookies: the cookies are encrypted before anything is
\* written, and an EncryptionError is logged and raised again
StoreCookies(session_id, cookies, expires_in_hours) ==
  /\ IF EncryptRaises(cookies)
     THEN /\ returned' = Return("store_cookies",
                                [session_id |-> session_id, cookies |-> cookies,
                                 expires_in_hours |-> expires_in_hours],
                                Raise("EncryptionError"))
          /\ UNCHANGED <<cookie_store, cookie_metadata, store_calls>>
     ELSE /\ cookie_store' = StoreInto(cookie_store, session_id, EncryptCookies(cookies))
          /\ cookie_metadata' =
               (session_id :> [created_at |-> now,
                               last_accessed |-> now,
                               expires_at |-> now + expires_in_hours]) @@ cookie_metadata
          /\ store_calls' = [store_calls EXCEPT
                               ![session_id] = LatestTwo(Append(@, cookies))]
          /\ returned' = Return("store_cookies",
                                [session_id |-> session_id, cookies |-> cookies,
                                 expires_in_hours |-> expires_in_hours], None)
  /\ UNCHANGED <<queue_vars, now, evicted>>

\* CookieManager.delete_cookies on the two dictionaries
DeleteFrom(f, session_id) == [k \in DOMAIN f \ {session_id} |-> f[k]]

\* a retrieve_cookies that also takes the cookies that expire now for expired
RetrieveExpiredAtExpiry(md, t, session_id) ==
  /\ session_id \in DOMAIN md
  /\ md[session_id].expires_at <= t

\* retrieve_cookies: the test it makes before it deletes
RetrieveExpired(md, t, session_id) ==
  /\ session_id \in DOMAIN md
  /\ md[session_id].expires_at < t

\* a retrieve_cookies that also moves the expiry on from the time of the read
AccessedRenewing(md, t, session_id) ==
  IF session_id \in DOMAIN md
  THEN [md EXCEPT ![session_id].last_accessed = t,
                  ![session_id].expires_at = t + (@ - md[session_id].created_at)]
  ELSE md

\* retrieve_cookies: metadata['last_accessed'] = utcnow(), if there is metadata
Accessed(md, t, session_id) ==
  IF session_id \in DOMAIN md
  THEN [md EXCEPT ![session_id].last_accessed = t]
  ELSE md

\* CookieManager.retrieve_cookies
RetrieveCookies(session_id) ==
  /\ IF session_id \notin DOMAIN cookie_store
     THEN /\ returned' = Return("retrieve_cookies", session_id, Nothing)
          /\ UNCHANGED vault
     ELSE IF RetrieveExpired(cookie_metadata, now, session_id)
     THEN /\ cookie_store' = DeleteFrom(cookie_store, session_id)
          /\ cookie_metadata' = DeleteFrom(cookie_metadata, session_id)
          /\ evicted' = evicted \cup {session_id}
          /\ returned' = Return("retrieve_cookies", session_id, Nothing)
     ELSE IF DecryptRaises(cookie_store[session_id])
     THEN /\ returned' = Return("retrieve_cookies", session_id, Nothing)  \* except: return None
          /\ UNCHANGED <<cookie_store, cookie_metadata, evicted>>
     ELSE /\ cookie_metadata' = Accessed(cookie_metadata, now, session_id)
          /\ returned' = Return("retrieve_cookies", session_id,
                                Some(DecryptCookies(cookie_store[session_id])))
          /\ UNCHANGED <<cookie_store, evicted>>
  /\ UNCHANGED <<queue_vars, now, store_calls>>

\* CookieManager.delete_cookies
DeleteCookies(session_id) ==
  /\ IF session_id \in DOMAIN cookie_store
     THEN /\ cookie_store' = DeleteFrom(cookie_store, session_id)
          /\ cookie_metadata' = DeleteFrom(cookie_metadata, session_id)
          /\ returned' = Return("delete_cookies", session_id, TRUE)
     ELSE /\ returned' = Return("delete_cookies", session_id, FALSE)
          /\ UNCHANGED <<cookie_store, cookie_metadata>>
  /\ UNCHANGED <<queue_vars, now, evicted, store_calls>>

\* CookieManager.is_expired: the value it returns at time t
IsExpiredValue(md, t, session_id) ==
  IF session_id \notin DOMAIN md THEN TRUE
  ELSE md[session_id].expires_at < t

\* CookieManager.is_expired
IsExpired(session_id) ==
  /\ returned' = Return("is_expired", session_id,
                        IsExpiredValue(cookie_metadata, now, session_id))
  /\ UNCHANGED <<queue_vars, now, vault>>

\* a needs_refresh that also asks for a refresh at the threshold
NeedsRefreshAtThreshold(md, t, session_id, threshold_hours) ==
  IF session_id \notin DOMAIN md THEN TRUE
  ELSE md[session_id].expires_at - t <= threshold_hours

\* CookieManager.needs_refresh: the value it returns at time t
NeedsRefreshValue(md, t, session_id, threshold_hours) ==
  IF session_id \notin DOMAIN md THEN TRUE
  ELSE md[session_id].expires_at - t < threshold_hours

\* the threshold_hours needs_refresh is called with
Thresholds == 0..(MaxClock - 1)

\* CookieManager.needs_refresh
NeedsRefresh(session_id, threshold_hours) ==
  /\ returned' = Return("needs_refresh",
                        [session_id |-> session_id,
                         threshold_hours |-> threshold_hours],
                        NeedsRefreshValue(cookie_metadata, now, session_id,
                                          threshold_hours))
  /\ UNCHANGED <<queue_vars, now, vault>>

\* CookieManager.get_session_count
GetSessionCount(store) == Cardinality(DOMAIN store)

\* a cleanup_expired that also collects the records that expire now
ExpiredSessionsAtExpiry(md, t) == {sid \in DOMAIN md : md[sid].expires_at <= t}

\* cleanup_expired: the ids it collects in expired_sessions
ExpiredSessions(md, t) == {sid \in DOMAIN md : md[sid].expires_at < t}

\* CookieManager.cleanup_expired
CleanupExpired ==
  /\ LET expired_sessions == ExpiredSessions(cookie_metadata, now)
         gone == expired_sessions \cap DOMAIN cookie_store
     IN /\ cookie_store' = [k \in DOMAIN cookie_store \ gone |-> cookie_store[k]]
        /\ cookie_metadata' = [k \in DOMAIN cookie_metadata \ gone |-> cookie_metadata[k]]
        /\ returned' = Return("cleanup_expired", None, Cardinality(expired_sessions))
  /\ UNCHANGED <<queue_vars, now, evicted, store_calls>>

\* the vault, called while hours pass
NextVault ==
  \/ \E session_id \in VaultIds, cookies \in CookieJars, expires_in_hours \in Ttls :
        StoreCookies(session_id, cookies, expires_in_hours)
  \/ \E session_id \in VaultIds : RetrieveCookies(session_id)
  \/ \E session_id \in VaultIds : DeleteCookies(session_id)
  \/ \E session_id \in VaultIds : IsExpired(session_id)
  \/ CleanupExpired
  \/ Tick

SpecVault == Init /\ [][NextVault]_vars

\* records are stored and deleted while hours pass, and needs_refresh is asked
NextRefresh ==
  \/ \E session_id \in VaultIds, cookies \in CookieJars, expires_in_hours \in Ttls :
        StoreCookies(session_id, cookies, expires_in_hours)
  \/ \E session_id \in VaultIds : DeleteCookies(session_id)
  \/ \E session_id \in VaultIds, threshold_hours \in Thresholds :
        NeedsRefresh(session_id, threshold_hours)
  \/ Tick

SpecRefresh == Init /\ [][NextRefresh]_vars

\* the ciphertexts decrypt_cookies raises on: tokens that do not authenticate
\* under the key (altered, or made with another key) and a token whose
\* payload is not JSON
BadTokens ==
  {[token |-> c, signed |-> FALSE] : c \in CookieJars}
    \cup {[token |-> NotJson, signed |-> TRUE]}

\* the ciphertexts a caller hands to decrypt_cookies (routes/user_routes.py
\* reads them from the credentials table)
Tokens == {EncryptCookies(c) : c \in CookieJars} \cup BadTokens

\* CookieManager.decrypt_cookies, called with a ciphertext
DecryptCall(encrypted) ==
  /\ returned' = Return("decrypt_cookies", encrypted,
                        IF DecryptRaises(encrypted)
                        THEN Raise("EncryptionError")
                        ELSE Some(DecryptCookies(encrypted)))
  /\ UNCHANGED <<queue_vars, now, vault>>

\* the token stored for an id is altered in memory, outside CookieManager:
\* the case the authentication of the token is there to detect
AlterStored(session_id, encrypted) ==
  /\ session_id \in DOMAIN cookie_store
  /\ cookie_store' = [cookie_store EXCEPT ![session_id] = encrypted]
  /\ UNCHANGED <<queue_vars, now, cookie_metadata, evicted, store_calls, returned>>

\* the vault within the hour, with ciphertexts that do not decrypt, supplied
\* and stored
NextTamper ==
  \/ \E session_id \in VaultIds, cookies \in CookieJars, expires_in_hours \in Ttls :
        StoreCookies(session_id, cookies, expires_in_hours)
  \/ \E session_id \in VaultIds, encrypted \in BadTokens :
        AlterStored(session_id, encrypted)
  \/ \E session_id \in VaultIds : RetrieveCookies(session_id)
  \/ \E encrypted \in Tokens : DecryptCall(encrypted)

SpecTamper == Init /\ [][NextTamper]_vars

\* the keyword arguments update_session is called with
Kwargs ==
  {<<>>, [user_email |-> 1], [authenticated |-> TRUE],
   [user_email |-> 1, authenticated |-> TRUE]}

\* sessions of logged-in callers with timeouts the clock reaches, and every
\* method of the registry called on them while hours pass
NextExpiry ==
  \/ \E user_id \in UserIds, timeout_hours \in Ttls :
        CreateSession(user_id, None, timeout_hours)
  \/ \E sid \in LoginIds : GetSessionCall(sid)
  \/ \E sid \in LoginIds : UpdateSession(sid, [user_email |-> 1])
  \/ \E sid \in LoginIds : DeleteSession(sid)
  \/ \E sid \in LoginIds : IsAuthenticated(sid)
  \/ \E sid \in LoginIds : AddDownload(sid, 1)
  \/ \E sid \in LoginIds : RemoveDownload(sid, 1)
  \/ \E sid \in LoginIds : ActiveDownloadCount(sid)
  \/ Tick

SpecExpiry == Init /\ [][NextExpiry]_vars

\* the user_id values create_session is called with: none, a user id, and
\* the empty string
Owners == {None, EmptyStr} \cup UserIds

\* sessions created for every owner value, read and deleted
NextCreate ==
  \/ \E user_id \in Owners, timeout_hours \in Ttls :
        CreateSession(user_id, None, timeout_hours)
  \/ \E sid \in LoginIds : GetSessionCall(sid)
  \/ \E sid \in LoginIds : IsAuthenticated(sid)
  \/ \E sid \in LoginIds : DeleteSession(sid)
  \/ Tick

SpecCreate == Init /\ [][NextCreate]_vars

\* sessions with timeouts the clock reaches, and downloads added to them and
\* removed from them while hours pass
NextActive ==
  \/ \E timeout_hours \in Ttls : CreateSession(None, None, timeout_hours)
  \/ \E sid \in LoginIds, id \in JobIds : AddDownload(sid, id)
  \/ \E sid \in LoginIds, id \in JobIds : RemoveDownload(sid, id)
  \/ \E sid \in LoginIds : ActiveDownloadCount(sid)
  \/ Tick

SpecActive == Init /\ [][NextActive]_vars

\* sessions of logged-in and anonymous callers, updated while hours pass
NextUpdate ==
  \/ \E user_id \in {None} \cup UserIds, timeout_hours \in Ttls :
        CreateSession(user_id, None, timeout_hours)
  \/ \E sid \in LoginIds, kwargs \in Kwargs : UpdateSession(sid, kwargs)
  \/ \E sid \in LoginIds : IsAuthenticated(sid)
  \/ Tick

SpecUpdate == Init /\ [][NextUpdate]_vars

\* the timeout_hours create_session is called with: any integer is taken
Timeouts == {-1} \cup Ttls

\* keyword arguments of update_session that name the email or the expiry
Patches == {[user_email |-> 1]} \cup {[expires_at |-> h] : h \in Hours}

\* sessions created with any timeout, read, updated with any patch and swept
\* while hours pass
NextStored ==
  \/ \E timeout_hours \in Timeouts : CreateSession(None, None, timeout_hours)
  \/ \E sid \in LoginIds : GetSessionCall(sid)
  \/ \E sid \in LoginIds, kwargs \in Patches : UpdateSession(sid, kwargs)
  \/ \E sid \in LoginIds : AddDownload(sid, 1)
  \/ \E sid \in LoginIds : RemoveDownload(sid, 1)
  \/ SessionCleanupExpired
  \/ Tick

SpecStored == Init /\ [][NextStored]_vars

\* records are stored and read while hours pass: retrieve_cookies,
\* is_expired and needs_refresh
NextRead ==
  \/ \E session_id \in VaultIds, cookies \in CookieJars, expires_in_hours \in Ttls :
        StoreCookies(session_id, cookies, expires_in_hours)
  \/ \E session_id \in VaultIds : RetrieveCookies(session_id)
  \/ \E session_id \in VaultIds : IsExpired(session_id)
  \/ \E session_id \in VaultIds, threshold_hours \in Thresholds :
        NeedsRefresh(session_id, threshold_hours)
  \/ Tick

SpecRead == Init /\ [][NextRead]_vars

\* the values store_cookies is called with: cookie dictionaries, and a value
\* that cannot be serialised
StoredValues == CookieJars \cup {NotSerializable}

\* records are stored, with values that encrypt and a value that does not,
\* retrieved and deleted while hours pass
NextStore ==
  \/ \E session_id \in VaultIds, cookies \in StoredValues, expires_in_hours \in Ttls :
        StoreCookies(session_id, cookies, expires_in_hours)
  \/ \E session_id \in VaultIds : RetrieveCookies(session_id)
  \/ \E session_id \in VaultIds : DeleteCookies(session_id)
  \/ Tick

SpecStore == Init /\ [][NextStore]_vars

\* ---- properties ---------------------------------------------------------
Status(j) == downloads[j].status
InQueue(j) == \E i \in 1..Len(queue) : queue[i].download_id = j
Occurrences(seq, x) == Cardinality({i \in 1..Len(seq) : seq[i] = x})
Downloading == {j \in DOMAIN downloads : Status(j) = DOWNLOADING}
Extracting == {j \in JobIds : executor[j].pc \in {"running", "update"}}

\* position of a status along pending -> downloading -> processing -> terminal
Rank(st) ==
  IF st = PENDING THEN 0
  ELSE IF st = DOWNLOADING THEN 1
  ELSE IF st = PROCESSING THEN 2
  ELSE 3

\* C1: every change of a job's status moves it forward along
\* pending -> downloading -> processing -> {completed, failed, cancelled};
\* no step takes a status backward.
C1_StatusMovesForward ==
  [][\A j \in DOMAIN downloads :
       downloads'[j].status # Status(j)
         => Rank(downloads'[j].status) >= Rank(Status(j))]_vars

\* C2: once a job's status is completed, failed or cancelled, no step
\* changes it.
C2_TerminalAbsorbing ==
  [][\A j \in DOMAIN downloads :
       Status(j) \in Terminal => downloads'[j].status = Status(j)]_vars

\* C3: with max_concurrent = K, at most K jobs have status downloading and at
\* most K extraction calls are in progress.
C3_AtMostKDownloading ==
  /\ Cardinality(Downloading) <= max_concurrent
  /\ Cardinality(Extracting) <= max_concurrent

\* more jobs than workers have been submitted, every worker is extracting and
\* a job waits in the queue
C3_Witness ==
  /\ ids_issued > max_concurrent
  /\ Cardinality(Downloading) = max_concurrent
  /\ Cardinality(Extracting) = max_concurrent
  /\ queue # <<>>

\* C4: with the workers started and not stopped, and every extraction call
\* returning, every submitted job eventually has status completed, failed or
\* cancelled.
C4_EveryJobEnds ==
  \A j \in JobIds :
    (j \in DOMAIN downloads) ~> (j \in TerminalNow(downloads))

\* more jobs than workers were submitted and the workers have finished every
\* one of them, one with a result and one with an error
C4_Witness ==
  /\ ids_issued > max_concurrent
  /\ \A j \in DOMAIN downloads : Status(j) \in {COMPLETED, FAILED}
  /\ \E j \in DOMAIN downloads : Status(j) = COMPLETED /\ invoked[j] = 1
  /\ \E j \in DOMAIN downloads : Status(j) = FAILED /\ invoked[j] = 1

\* C5: cancel returns true only for a known job that is not completed,
\* failed or cancelled, and at most once in the life of a job.
C5_CancelTrueOnce ==
  [][\A id \in JobIds :
       cancel_true'[id] > cancel_true[id]
         => /\ id \in DOMAIN downloads
            /\ Status(id) \notin Terminal
            /\ cancel_true[id] = 0]_vars

\* C6: a job cancelled while still queued is not handed to the extraction
\* engine when a worker dequeues it, and its status stays cancelled.
C6_CancelledPendingSkipped ==
  [][\A j \in DOMAIN downloads :
       (InQueue(j) /\ Status(j) = CANCELLED)
         => /\ invoked'[j] = invoked[j]
            /\ downloads'[j].status = CANCELLED]_vars

\* C7: every job id is dequeued at most once, no two workers hold the same
\* job id, and the extraction engine is invoked at most once per job id.
C7_ExclusiveHandOff ==
  /\ \A j \in JobIds : Occurrences(dispatched, j) <= 1
  /\ \A j \in JobIds : invoked[j] <= 1
  /\ \A w1, w2 \in WorkerIds :
       (/\ w1 # w2
        /\ workers[w1].pc = "extract"
        /\ workers[w2].pc = "extract")
         => workers[w1].download_id # workers[w2].download_id

\* two workers hold two different jobs at once, each dequeued once and each
\* in its one extraction call
C7_Witness ==
  \E w1, w2 \in WorkerIds :
    /\ w1 # w2
    /\ workers[w1].pc = "extract"
    /\ workers[w2].pc = "extract"
    /\ \A w \in {w1, w2} :
         /\ Occurrences(dispatched, workers[w].download_id) = 1
         /\ invoked[workers[w].download_id] = 1

\* C8: jobs are dequeued in the order they were submitted (ids are issued in
\* submission order), and a job's extraction call has been started by the
\* time a later job is dequeued; completion order is free.
C8_FifoDispatch ==
  /\ \A i, k \in 1..Len(dispatched) : i < k => dispatched[i] < dispatched[k]
  /\ \A a, b \in DOMAIN downloads :
       (a < b /\ b \in Range(dispatched))
         => /\ a \in Range(dispatched)
            /\ downloads[a].url_valid => invoked[a] >= 1

\* both jobs were dequeued in submission order, and the later one has
\* completed while the earlier one is still being extracted
C8_Witness ==
  /\ dispatched = <<1, 2>>
  /\ Status(2) = COMPLETED
  /\ executor[1].pc = "running"
  /\ Status(1) \in {DOWNLOADING, PROCESSING}

\* B has been dequeued and set to downloading by a worker; a B whose URL the
\* downloader rejects is marked failed in the same step
SetDownloading(b) ==
  /\ b \in Range(dispatched)
  /\ downloads[b].url_valid => Status(b) = DOWNLOADING

\* after A has reached a terminal state, a B still in the queue is eventually
\* set to downloading
C9_ThenDownloading ==
  \A a \in JobIds : \A b \in {j \in JobIds : a < j} :
    (/\ max_concurrent = 1
     /\ a \in ever_terminal
     /\ b \in DOMAIN downloads
     /\ InQueue(b)) ~> (b \in DOMAIN downloads /\ SetDownloading(b))

C10_FinishedJobDetached ==
  \A j \in DOMAIN downloads :
    (/\ Status(j) \in {COMPLETED, FAILED}
     /\ downloads[j].session_id # None
     /\ GetSession(sessions, downloads[j].session_id))
      => j \notin Range(sessions[downloads[j].session_id].active_downloads)

\* the downloads submitted under a session id that are not in a terminal state
SessionJobs(sid) ==
  {j \in DOMAIN downloads :
     downloads[j].session_id = sid /\ Status(j) \notin Terminal}

\* C11: for every session, the number of jobs submitted on its behalf that
\* are pending, downloading or processing at the same time never exceeds 3,
\* whatever single submissions, playlist submissions and cancels are made
\* with its session id.
C11_SessionCap ==
  \A sid \in DOMAIN sessions : Cardinality(SessionJobs(sid)) <= SessionLimit

\* a db_op for the download has been handed to the thread pool (it is waiting
\* there, or it has run and its row is in the table)
PersistenceIssued(j) ==
  \/ \E op \in db_ops : op.download_id = j
  \/ \E i \in 1..Len(history) : history[i].download_id = j

\* C12: every job that reaches completed, failed or cancelled eventually has
\* a history persistence call issued for its id, with or without an owning
\* user id and whichever terminal state it reached.
C12_TerminalPersisted ==
  \A j \in JobIds :
    (j \in TerminalNow(downloads)) ~> PersistenceIssued(j)

\* the table has a row for the download id
HasRow(h, id) == \E i \in 1..Len(h) : h[i].download_id = id

\* C13: the history table never holds two rows with the same download id, and
\* a db_op for a download id that already has a row inserts nothing and
\* leaves the table as it was; any other change of the table appends one row.
C13_HistoryIdempotent ==
  /\ [](\A i, k \in 1..Len(history) :
          history[i].download_id = history[k].download_id => i = k)
  /\ [][/\ \A op \in db_ops :
            (db_ops' = db_ops \ {op} /\ HasRow(history, op.download_id))
              => history' = history
        /\ history' # history
             => /\ Len(history') = Len(history) + 1
                /\ SubSeq(history', 1, Len(history)) = history]_vars

\* a download of a logged-in user has failed and its db_op has run, and the
\* table still holds only the earlier row with that download id
C13_Witness ==
  \E j \in DOMAIN downloads :
    /\ downloads[j].user_id # None
    /\ Status(j) = FAILED
    /\ db_ops = {}
    /\ history = <<[download_id |-> j, user_id |-> downloads[j].user_id,
                    status |-> COMPLETED]>>

C15_InvalidNeverAJob ==
  /\ \A j \in DOMAIN downloads : downloads[j].url_valid
  /\ \A i \in 1..Len(queue) : queue[i].request.url_valid

\* a worker task that has been started and has not been cancelled
Running(w) == workers[w].pc \in {"get", "extract", "sleep"}

\* C16: an exception raised in a worker's loop body while it handles a job,
\* its own failure handler included (the job record is missing), does not end
\* that worker and touches no other worker: the queue entry is marked done,
\* the worker holds no job, pauses, and then goes back to dequeue; a worker
\* ends only when stop_workers cancels every worker.
C16_WorkerFaultIsolation ==
  [][\A w \in WorkerIds :
       /\ (Running(w) /\ workers'[w].pc = "sleep" /\ workers[w].pc # "sleep")
            => /\ unfinished_tasks' = unfinished_tasks - 1
               /\ workers'[w].download_id = None
               /\ \A v \in WorkerIds \ {w} : workers'[v] = workers[v]
       /\ (workers[w].pc = "sleep" /\ workers'[w].pc # "sleep")
            => workers'[w].pc \in {"get", "stopped"}
       /\ (Running(w) /\ workers'[w].pc = "stopped")
            => \A v \in WorkerIds : workers'[v].pc \in {"stopped", "unstarted"}
       /\ Running(w)
            => workers'[w].pc \in {"get", "extract", "sleep", "stopped"}]_vars

\* the record of job 1 was removed while the job was with the single worker;
\* the extraction failed and the failure handler raised; the worker has
\* paused, gone back to the queue and taken job 2
C16_Witness ==
  /\ max_concurrent = 1
  /\ 1 \notin DOMAIN downloads
  /\ 1 \in DOMAIN progress
  /\ progress[1].status = FAILED
  /\ dispatched = <<1, 2>>
  /\ workers[1] = [pc |-> "extract", download_id |-> 2]
  /\ unfinished_tasks = 1

\* a worker holds the download and its extraction call has not returned
InFlight(id) ==
  /\ \E w \in WorkerIds : workers[w] = [pc |-> "extract", download_id |-> id]
  /\ executor[id].pc \in {"running", "update"}

\* C17: a cancel that succeeds on a job whose extraction is in flight only
\* relabels it: at once the status is cancelled and a completion time is set,
\* for readers of the status and of the progress, while the queue, the
\* workers and the running extraction call are as before; and the worker that
\* holds a job takes no other job before the extraction call has returned.
C17_CancelInFlightLabelOnly ==
  [][\A id \in JobIds :
       /\ (InFlight(id) /\ cancel_true'[id] > cancel_true[id])
            => /\ downloads'[id].status = CANCELLED
               /\ downloads'[id].completed_at # None
               /\ progress'[id].status = CANCELLED
               /\ queue' = queue
               /\ workers' = workers
               /\ invoked' = invoked
       /\ \A w \in WorkerIds :
            (/\ workers[w] = [pc |-> "extract", download_id |-> id]
             /\ workers'[w] # workers[w])
              => \/ executor'[id].pc = "finished"
                 \/ workers'[w].pc = "stopped"]_vars

\* C18: in every reachable state every stored progress snapshot has a
\* percentage from 0 to 100, whatever samples the engine emits, samples with
\* more downloaded bytes than the (estimated) total and samples with unknown
\* total included.
C18_PercentageInRange ==
  \A j \in DOMAIN progress :
    0 <= progress[j].progress /\ progress[j].progress <= 100

\* job 1 has stored a sample of half its total and then been given a sample
\* with more bytes than the total, which was not stored; the hook of job 2
\* has stored a sample with bytes downloaded and unknown total
C18_Witness ==
  /\ executor[1].pc = "raised"
  /\ progress[1] = [status |-> DOWNLOADING, progress |-> 50, total_bytes |-> 2]
  /\ executor[2] = [pc |-> "update", status |-> DOWNLOADING]
  /\ progress[2] = [status |-> DOWNLOADING, progress |-> 0, total_bytes |-> None]

\* DownloadQueue.get_download_status: the status reported, if found
GetDownloadStatus(d, id) == IF id \in DOMAIN d THEN Some(d[id].status) ELSE Nothing

\* DownloadQueue.get_download_progress: the snapshot reported, if found
GetDownloadProgress(p, id) == IF id \in DOMAIN p THEN Some(p[id]) ELSE Nothing

\* the jobs that are completed, failed or cancelled and whose completion time
\* is before now - max_age
Expired(max_age) ==
  {j \in DOMAIN downloads :
     Status(j) \in Terminal /\ downloads[j].completed_at < now - max_age}

\* C19: cleanup_old_downloads(max_age) removes from the job map and from the
\* progress map exactly the jobs that are completed, failed or cancelled and
\* completed before now - max_age; it removes no pending, downloading or
\* processing job, leaves every other job as it was, and returns the number
\* removed; the status and the progress of a removed id are then not found.
C19_SweepExact ==
  [][(returned'.op = "cleanup_old_downloads" /\ returned'.alt # returned.alt)
       => LET gone == Expired(returned'.arg)
          IN /\ DOMAIN downloads' = DOMAIN downloads \ gone
             /\ DOMAIN progress' = DOMAIN progress \ gone
             /\ \A j \in gone : Status(j) \notin {PENDING, DOWNLOADING, PROCESSING}
             /\ \A j \in DOMAIN downloads' : downloads'[j] = downloads[j]
             /\ \A j \in DOMAIN progress' : progress'[j] = progress[j]
             /\ returned'.value = Cardinality(gone)
             /\ \A j \in gone :
                  /\ GetDownloadStatus(downloads', j) = Nothing
                  /\ GetDownloadProgress(progress', j) = Nothing]_vars

\* a sweep with max_age 1 at hour 3 has removed job 1, finished at hour 1,
\* and kept job 2, finished at hour 2, and has returned 1
C19_Witness ==
  /\ returned.op = "cleanup_old_downloads"
  /\ returned.arg = 1
  /\ returned.value = 1
  /\ now = 3
  /\ GetDownloadStatus(downloads, 1) = Nothing
  /\ GetDownloadProgress(progress, 1) = Nothing
  /\ 1 \in ever_terminal
  /\ 2 \in DOMAIN downloads
  /\ Status(2) \in Terminal
  /\ downloads[2].completed_at = 2

\* C20: a retrieve_cookies(id) made later than the expiry of the stored
\* record returns none and removes the encrypted cookies and their metadata,
\* so that is_expired(id) is then true and the vault holds one record less;
\* a retrieve made at or before the expiry removes nothing and returns the
\* cookies that were stored.
C20_LazyExpiry ==
  [][(returned'.op = "retrieve_cookies" /\ returned'.alt # returned.alt)
       => LET id == returned'.arg
          IN id \in DOMAIN cookie_store
               => IF now > cookie_metadata[id].expires_at
                  THEN /\ returned'.value = Nothing
                       /\ id \notin DOMAIN cookie_store'
                       /\ id \notin DOMAIN cookie_metadata'
                       /\ IsExpiredValue(cookie_metadata', now', id)
                       /\ GetSessionCount(cookie_store') = GetSessionCount(cookie_store) - 1
                       /\ \A k \in DOMAIN cookie_store' : cookie_store'[k] = cookie_store[k]
                  ELSE /\ returned'.value = Some(DecryptCookies(cookie_store[id]))
                       /\ cookie_store' = cookie_store
                       /\ DOMAIN cookie_metadata' = DOMAIN cookie_metadata
                       /\ cookie_metadata'[id].expires_at = cookie_metadata[id].expires_at
                       /\ ~IsExpiredValue(cookie_metadata', now', id)]_vars

\* two records were stored; the record of id 1 was retrieved after its expiry
\* and removed, and the last call returned none for it; the record of id 2 is
\* still stored
C20_Witness ==
  /\ returned.op = "retrieve_cookies"
  /\ returned.arg = 1
  /\ returned.value = Nothing
  /\ 1 \in evicted
  /\ 1 \notin DOMAIN cookie_store
  /\ 1 \notin DOMAIN cookie_metadata
  /\ 2 \in DOMAIN cookie_store
  /\ GetSessionCount(cookie_store) = 1

\* C21: store_cookies(id, r, ttl) leaves one record for id whose token
\* decrypts to r and whose created, last-accessed and expiry times are now,
\* now and now + ttl, whatever record id had before; a retrieve_cookies(id)
\* made at or before the expiry returns the cookies of the latest store call
\* for id, and not those of the call before it when the two differ.
C21_RoundTripOverwrite ==
  [][/\ (returned'.op = "store_cookies" /\ returned'.alt # returned.alt)
          => LET id == returned'.arg.session_id
                 ttl == returned'.arg.expires_in_hours
             IN /\ id \in DOMAIN cookie_store'
                /\ ~DecryptRaises(cookie_store'[id])
                /\ DecryptCookies(cookie_store'[id])
                     = store_calls'[id][Len(store_calls'[id])]
                /\ cookie_metadata'[id] = [created_at |-> now,
                                           last_accessed |-> now,
                                           expires_at |-> now + ttl]
                /\ DOMAIN cookie_store' = DOMAIN cookie_store \cup {id}
                /\ \A k \in DOMAIN cookie_store \ {id} :
                     /\ cookie_store'[k] = cookie_store[k]
                     /\ cookie_metadata'[k] = cookie_metadata[k]
     /\ (returned'.op = "retrieve_cookies" /\ returned'.alt # returned.alt)
          => LET id == returned'.arg
                 calls == store_calls[id]
             IN (id \in DOMAIN cookie_store /\ now <= cookie_metadata[id].expires_at)
                  => /\ returned'.value = Some(calls[Len(calls)])
                     /\ (Len(calls) = 2 /\ calls[1] # calls[2])
                          => returned'.value # Some(calls[1])
                     /\ cookie_metadata'[id].last_accessed = now
                     /\ cookie_metadata'[id].created_at = cookie_metadata[id].created_at]_vars

\* cookies 1 were stored for id 1 and cookies 2 were stored over them at hour
\* 2 for one hour; the retrieve made at hour 3 has returned cookies 2
C21_Witness ==
  /\ returned.op = "retrieve_cookies"
  /\ returned.arg = 1
  /\ returned.value = Some(2)
  /\ store_calls[1] = <<1, 2>>
  /\ now = 3
  /\ cookie_metadata[1] = [created_at |-> 2, last_accessed |-> 3, expires_at |-> 3]

\* C22: needs_refresh(id, threshold) returns true for an id without a stored
\* record; for a stored record it returns true exactly when expiry - now is
\* less than the threshold, so false when the two are equal; the call
\* changes nothing in the vault.
C22_NeedsRefresh ==
  [][(returned'.op = "needs_refresh" /\ returned'.alt # returned.alt)
       => LET id == returned'.arg.session_id
              threshold == returned'.arg.threshold_hours
          IN /\ id \notin DOMAIN cookie_store => returned'.value = TRUE
             /\ id \in DOMAIN cookie_store
                  => returned'.value
                       = (cookie_metadata[id].expires_at - now < threshold)
             /\ cookie_store' = cookie_store
             /\ cookie_metadata' = cookie_metadata]_vars

\* the record of id 1 expires in one hour, and needs_refresh(1, 1) has
\* returned false; id 2 has no record
C22_Witness ==
  /\ returned.op = "needs_refresh"
  /\ returned.arg = [session_id |-> 1, threshold_hours |-> 1]
  /\ returned.value = FALSE
  /\ 1 \in DOMAIN cookie_store
  /\ cookie_metadata[1].expires_at - now = 1
  /\ 2 \notin DOMAIN cookie_store

\* C23: whenever a ciphertext does not decrypt, the caller of the vault
\* operation gets an EncryptionError: from decrypt_cookies on a supplied
\* ciphertext, and from retrieve_cookies on a stored ciphertext that has not
\* expired.
C23_DecryptFailureRaised ==
  [][/\ (returned'.op = "decrypt_cookies" /\ returned'.alt # returned.alt)
          => (DecryptRaises(returned'.arg)
                => returned'.value = Raise("EncryptionError"))
     /\ (returned'.op = "retrieve_cookies" /\ returned'.alt # returned.alt)
          => LET id == returned'.arg
             IN (/\ id \in DOMAIN cookie_store
                 /\ now <= cookie_metadata[id].expires_at
                 /\ DecryptRaises(cookie_store[id]))
                  => returned'.value = Raise("EncryptionError")]_vars

\* C24: create_session(timeout) stores a session with expiry = created +
\* timeout, which no later call changes; get_session at a time not later
\* than the expiry returns the stored session; the first get_session after
\* the expiry returns none and removes the session from the registry; an id
\* that was generated and is no longer stored is never stored again, and
\* get_session returns none for it.
C24_SessionLazyExpiry ==
  [][/\ (returned'.op = "create_session" /\ returned'.alt # returned.alt)
          => LET sid == returned'.value
             IN /\ sessions'[sid].created_at = now
                /\ sessions'[sid].expires_at = now + returned'.arg.timeout_hours
     /\ \A sid \in DOMAIN sessions \cap DOMAIN sessions' :
          /\ sessions'[sid].created_at = sessions[sid].created_at
          /\ sessions'[sid].expires_at = sessions[sid].expires_at
     /\ \A sid \in 1..sids_issued :
          sid \notin DOMAIN sessions => sid \notin DOMAIN sessions'
     /\ (returned'.op = "get_session" /\ returned'.alt # returned.alt)
          => LET sid == returned'.arg
             IN IF sid \notin DOMAIN sessions
                THEN returned'.value = Nothing
                ELSE IF now <= sessions[sid].expires_at
                THEN /\ sid \in DOMAIN sessions'
                     /\ returned'.value = Some(sessions'[sid])
                     /\ sessions'[sid].session_id = sid
                ELSE /\ returned'.value = Nothing
                     /\ sid \notin DOMAIN sessions']_vars

\* session 1, created at hour 1 with a timeout of one hour, has been returned
\* by a get_session made at hour 2, the hour of its expiry; session 2 was
\* created and is no longer stored
C24_Witness ==
  /\ returned.op = "get_session"
  /\ returned.arg = 1
  /\ 1 \in DOMAIN sessions
  /\ returned.value = Some(sessions[1])
  /\ sessions[1].created_at = 1
  /\ sessions[1].expires_at = 2
  /\ sessions[1].last_activity = 2
  /\ now = 2
  /\ sids_issued = 2
  /\ 2 \notin DOMAIN sessions

\* C25: once now is later than the expiry of a stored session, every method
\* of the registry treats it as absent: get_session returns none,
\* is_authenticated false, get_active_download_count 0, and update_session,
\* add_download, remove_download and delete_session return false.
C25_ExpiredIsAbsent ==
  [][returned'.alt # returned.alt
       => LET op == returned'.op
              sid == IF op \in {"update_session", "add_download", "remove_download"}
                     THEN returned'.arg.session_id
                     ELSE returned'.arg
          IN (/\ op \in {"get_session", "is_authenticated",
                         "get_active_download_count", "update_session",
                         "add_download", "remove_download", "delete_session"}
              /\ sid \in DOMAIN sessions
              /\ now > sessions[sid].expires_at)
               => /\ op = "get_session" => returned'.value = Nothing
                  /\ op = "get_active_download_count" => returned'.value = 0
                  /\ op \in {"is_authenticated", "update_session", "add_download",
                             "remove_download", "delete_session"}
                       => returned'.value = FALSE]_vars

\* C26: create_session returns an id that no stored session has, stores
\* under it a session with an empty list of active downloads and leaves the
\* other sessions as they were, and the session is authenticated exactly
\* when a user id was given, whatever its value.
C26_CreateSession ==
  [][(returned'.op = "create_session" /\ returned'.alt # returned.alt)
       => LET sid == returned'.value
          IN /\ sid \notin DOMAIN sessions
             /\ DOMAIN sessions' = DOMAIN sessions \cup {sid}
             /\ \A k \in DOMAIN sessions : sessions'[k] = sessions[k]
             /\ sessions'[sid].active_downloads = <<>>
             /\ sessions'[sid].authenticated = (returned'.arg.user_id # None)]_vars

\* the download ids in the active list of a stored session
Active(ss, sid) == Range(ss[sid].active_downloads)

\* the stored sessions that have not expired, as they are
LiveSessions(ss) == {sid \in DOMAIN ss : GetSession(ss, sid)}

C28_UpdateSession ==
  [][(returned'.op = "update_session" /\ returned'.alt # returned.alt)
       => LET sid == returned'.arg.session_id
              kwargs == returned'.arg.kwargs
          IN /\ \A k \in LiveSessions(sessions) \ {sid} :
                  k \in DOMAIN sessions' /\ sessions'[k] = sessions[k]
             /\ IF sid \in LiveSessions(sessions)
                THEN /\ returned'.value = TRUE
                     /\ sid \in DOMAIN sessions'
                     /\ DOMAIN sessions'[sid] = DOMAIN sessions[sid]
                     /\ \A f \in DOMAIN kwargs : sessions'[sid][f] = kwargs[f]
                     /\ sessions'[sid].last_activity = now
                     /\ \A f \in DOMAIN sessions[sid] \ (DOMAIN kwargs \cup {"last_activity"}) :
                          sessions'[sid][f] = sessions[sid][f]
                ELSE /\ returned'.value = FALSE
                     /\ sid \notin DOMAIN sessions']_vars

\* session 1, created at hour 1 for a logged-in user, has been given an
\* e-mail address by an update made at hour 2: the address and the last
\* activity are new, the other fields are those of its creation; session 2 is
\* as it was created
C28_Witness ==
  /\ returned.op = "update_session"
  /\ returned.arg = [session_id |-> 1, kwargs |-> [user_email |-> 1]]
  /\ returned.value = TRUE
  /\ now = 2
  /\ 1 \in DOMAIN sessions
  /\ sessions[1] = [session_id |-> 1, user_id |-> 1, user_email |-> 1,
                    created_at |-> 1, last_activity |-> 2, expires_at |-> 2,
                    authenticated |-> TRUE, active_downloads |-> <<>>]
  /\ 2 \in DOMAIN sessions
  /\ sessions[2].user_email = None
  /\ sessions[2].last_activity = sessions[2].created_at

\* C29: in every reachable state the status in the metadata of a download
\* equals the status in its progress snapshot, also while a progress hook in
\* the executor thread runs between the statements of the event loop.
C29_StatusMirrored ==
  \A j \in DOMAIN downloads \cap DOMAIN progress :
    downloads[j].status = progress[j].status

\* C30: in every reachable state a download with status completed has an
\* output file and a completion time, and a download with status failed has
\* an error message and a completion time.
C30_TerminalRecordsComplete ==
  \A j \in DOMAIN downloads :
    /\ Status(j) = COMPLETED
         => downloads[j].output_file /\ downloads[j].completed_at # None
    /\ Status(j) = FAILED
         => downloads[j].error /\ downloads[j].completed_at # None

\* one download has completed, with its output file and completion time,
\* and the other has failed in its extraction call, with its error and
\* completion time
C30_Witness ==
  \E a, b \in DOMAIN downloads :
    /\ Status(a) = COMPLETED
    /\ downloads[a].output_file
    /\ ~downloads[a].error
    /\ downloads[a].completed_at = now
    /\ Status(b) = FAILED
    /\ invoked[b] = 1
    /\ downloads[b].error
    /\ ~downloads[b].output_file
    /\ downloads[b].completed_at = now

\* DownloadQueue.get_queue_size
GetQueueSize(q) == Len(q)

\* the downloads whose status is pending
Pending == {j \in DOMAIN downloads : Status(j) = PENDING}

\* start_workers has run and stop_workers has not
WorkersRunning == \E w \in WorkerIds : workers[w].pc \in {"get", "extract", "sleep"}

\* C31: while the workers run, get_queue_size is the number of pending
\* downloads: every pending download is in the queue exactly once and every
\* id in the queue is that of a pending download.
C31_QueueSizeIsPending ==
  WorkersRunning =>
    /\ GetQueueSize(queue) = Cardinality(Pending)
    /\ \A j \in Pending :
         Cardinality({i \in 1..Len(queue) : queue[i].download_id = j}) = 1
    /\ \A i \in 1..Len(queue) : queue[i].download_id \in Pending

\* the session methods that read a session through get_session and write
\* nothing but what get_session writes, or the list of active downloads
SessionReads == {"get_session", "is_authenticated", "add_download",
                 "remove_download", "get_active_download_count"}

\* C32: a get_session that returns a session, and is_authenticated,
\* add_download, remove_download and get_active_download_count on a session
\* that get_session returns, set its last activity to now and leave its
\* expiry and creation time as they were; while a session is stored its
\* last activity is never later than its expiry.
C32_ReadsSlideLastActivity ==
  /\ [][(returned'.alt # returned.alt /\ returned'.op \in SessionReads)
          => LET sid == IF returned'.op \in {"add_download", "remove_download"}
                        THEN returned'.arg.session_id
                        ELSE returned'.arg
             IN GetSession(sessions, sid)
                  => /\ sid \in DOMAIN sessions'
                     /\ sessions'[sid].last_activity = now
                     /\ sessions'[sid].expires_at = sessions[sid].expires_at
                     /\ sessions'[sid].created_at = sessions[sid].created_at]_vars
  /\ [](\A sid \in DOMAIN sessions :
          sessions[sid].last_activity <= sessions[sid].expires_at)

\* session 1, created at hour 1 with a timeout of one hour, is read by
\* is_authenticated at hour 2: its last activity is hour 2 and its expiry is
\* still hour 2
C32_Witness ==
  /\ returned.op = "is_authenticated"
  /\ returned.arg = 1
  /\ returned.value = TRUE
  /\ now = 2
  /\ 1 \in DOMAIN sessions
  /\ sessions[1].created_at = 1
  /\ sessions[1].last_activity = 2
  /\ sessions[1].expires_at = 2

\* C33: every stored session has an expiry later than its creation time,
\* whatever timeout create_session was given and whatever update_session,
\* get_session, add_download, remove_download and cleanup_expired did since.
C33_ExpiryAfterCreated ==
  \A sid \in DOMAIN sessions :
    sessions[sid].expires_at > sessions[sid].created_at

\* C34: a retrieve_cookies that returns cookies changes the last-accessed
\* time of that record and nothing else in the vault: the stored ciphertexts,
\* the creation time and expiry of the record, and the other records are as
\* before; is_expired and needs_refresh change nothing in the vault.
C34_RetrieveTouchesLastAccessed ==
  [][returned'.alt # returned.alt
       => /\ (returned'.op = "retrieve_cookies" /\ returned'.value # Nothing)
               => LET id == returned'.arg
                  IN /\ cookie_store' = cookie_store
                     /\ DOMAIN cookie_metadata' = DOMAIN cookie_metadata
                     /\ cookie_metadata'[id].last_accessed = now
                     /\ cookie_metadata'[id].created_at = cookie_metadata[id].created_at
                     /\ cookie_metadata'[id].expires_at = cookie_metadata[id].expires_at
                     /\ \A other \in DOMAIN cookie_metadata \ {id} :
                          cookie_metadata'[other] = cookie_metadata[other]
          /\ returned'.op \in {"is_expired", "needs_refresh"}
               => /\ cookie_store' = cookie_store
                  /\ cookie_metadata' = cookie_metadata]_vars

\* the record of id 1, stored at hour 1 to expire at hour 2, was retrieved at
\* hour 2 and still expires at hour 2; the record of id 2, stored at hour 1,
\* has not been read
C34_Witness ==
  /\ returned.op = "retrieve_cookies"
  /\ returned.arg = 1
  /\ returned.value # Nothing
  /\ now = 2
  /\ DOMAIN cookie_metadata = {1, 2}
  /\ cookie_metadata[1].created_at = 1
  /\ cookie_metadata[1].last_accessed = 2
  /\ cookie_metadata[1].expires_at = 2
  /\ cookie_metadata[2].last_accessed = 1

\* C35: the vault's cleanup_expired removes the encrypted cookies and the
\* metadata of exactly the records whose expiry is earlier than now, leaves
\* every other record as it was and returns the number of records removed;
\* is_expired is then false for every id still stored.
C35_VaultSweepExact ==
  [][(returned'.op = "cleanup_expired" /\ returned'.alt # returned.alt)
       => LET gone == {id \in DOMAIN cookie_store :
                         cookie_metadata[id].expires_at < now}
          IN /\ DOMAIN cookie_store' = DOMAIN cookie_store \ gone
             /\ DOMAIN cookie_metadata' = DOMAIN cookie_metadata \ gone
             /\ \A id \in DOMAIN cookie_store' :
                  /\ cookie_store'[id] = cookie_store[id]
                  /\ cookie_metadata'[id] = cookie_metadata[id]
                  /\ ~IsExpiredValue(cookie_metadata', now', id)
             /\ returned'.value = Cardinality(gone)
             /\ GetSessionCount(cookie_store')
                  = GetSessionCount(cookie_store) - returned'.value]_vars

\* at hour 3 the record of id 2 was stored to expire at hour 3, and a
\* cleanup_expired made after that has removed the record of id 1, which
\* had expired, has kept that of id 2 and has returned 1
C35_Witness ==
  /\ returned.op = "cleanup_expired"
  /\ returned.value = 1
  /\ now = 3
  /\ store_calls[1] # <<>>
  /\ DOMAIN cookie_store = {2}
  /\ DOMAIN cookie_metadata = {2}
  /\ cookie_metadata[2].created_at = 3
  /\ cookie_metadata[2].expires_at = 3

\* C36: cleanup_old_downloads removes no download that is still in the queue
\* or whose extraction call is running, so a worker never takes from the
\* queue, and never starts an extraction call for, an id without a metadata
\* record.
C36_SweepSparesQueuedAndInFlight ==
  /\ [][(returned'.op = "cleanup_old_downloads" /\ returned'.alt # returned.alt)
          => \A j \in DOMAIN downloads \ DOMAIN downloads' :
               ~InQueue(j) /\ j \notin Extracting]_vars
  /\ [][\A j \in JobIds :
          (Len(dispatched') > Len(dispatched) /\ dispatched'[Len(dispatched')] = j)
            => j \in DOMAIN downloads]_vars
  /\ [][\A j \in JobIds : invoked'[j] > invoked[j] => j \in DOMAIN downloads]_vars

\* C37: the metadata map and the progress map have the same keys in every
\* reachable state: every download has a snapshot, and no snapshot is kept
\* for an id without a metadata record.
C37_SameKeys == DOMAIN downloads = DOMAIN progress

\* C38: in every reachable state a download has a completion time exactly
\* when its status is completed, failed or cancelled; a pending, downloading
\* or processing download has none.
C38_CompletedAtIffTerminal ==
  \A j \in DOMAIN downloads :
    downloads[j].completed_at # None <=> Status(j) \in Terminal

\* C39: a store_cookies whose encryption fails raises EncryptionError to its
\* caller and leaves the encrypted cookies and the metadata of every id,
\* the id of the call included, exactly as they were; a store_cookies whose
\* encryption succeeds returns and writes the record.
C39_StoreAtomic ==
  [][(returned'.op = "store_cookies" /\ returned'.alt # returned.alt)
       => IF returned'.arg.cookies = NotSerializable
          THEN /\ cookie_store' = cookie_store
               /\ cookie_metadata' = cookie_metadata
               /\ returned'.value = Raise("EncryptionError")
          ELSE LET id == returned'.arg.session_id
               IN /\ id \in DOMAIN cookie_store'
                  /\ DecryptCookies(cookie_store'[id]) = returned'.arg.cookies
                  /\ cookie_metadata'[id].expires_at
                       = now + returned'.arg.expires_in_hours]_vars

\* the record of id 1 was stored at hour 1 to expire at hour 2; at hour 2 it
\* was retrieved, and a store_cookies for id 1 with a value that cannot be
\* encrypted and a timeout of one hour has then raised: the record is the
\* one stored at hour 1 and still expires at hour 2
C39_Witness ==
  /\ returned.op = "store_cookies"
  /\ returned.arg.session_id = 1
  /\ returned.arg.cookies = NotSerializable
  /\ returned.arg.expires_in_hours = 1
  /\ returned.value = Raise("EncryptionError")
  /\ now = 2
  /\ 1 \in DOMAIN cookie_store
  /\ DecryptCookies(cookie_store[1]) = 1
  /\ cookie_metadata[1].created_at = 1
  /\ cookie_metadata[1].last_accessed = 2
  /\ cookie_metadata[1].expires_at = 2
====
